---- MODULE Spec2Model ----
(***************************************************************************)
(* Offline-resilient check-in submission pipeline of bni-anchor-checkin:   *)
(* the persisted queue of useOfflineQueue.ts (loadQueue, persistQueue,     *)
(* enqueue, flushQueue and the queue-length / 'online' effect), the        *)
(* foreground submission of ScanPanel.tsx (submitScan) and the payload     *)
(* builders of qr-format (generateMemberPayload, generateGuestPayload).    *)
(*                                                                         *)
(* The scheduler is the browser's single UI thread: every action below is  *)
(* one run-to-completion task (an event handler, or the continuation that  *)
(* runs when an awaited fetch settles).                                    *)
(***************************************************************************)
EXTENDS Integers, Sequences, FiniteSets, TLC

\* Entries ever created by createPendingScan (ids 1..MaxEntries).
MaxEntries == 3
\* flushQueue invocations that may be awaiting a delivery at the same time.
MaxPasses == 2
\* submitScan invocations that may be awaiting their delivery at the same time.
MaxSubmits == 2
\* getUserMedia calls ever made by the scan panel.
MaxStreams == 3
\* detect calls of handleScan that may be awaited at the same time.
MaxDetects == 1
\* Requests of a search panel that may be unsettled at the same time.
MaxRequests == 2

VARIABLES
    online,     \* navigator.onLine
    storage,    \* localStorage["anchor-checkin-queue"]
    mounted,    \* a ScanPanel (and so a useOfflineQueue instance) is mounted
    queue,      \* the mounted instance's React state `queue` (the mirror)
    depLen,     \* queue.length the effect last ran with; NoDeps before its first run
    passes,     \* flushQueue invocations awaiting a delivery, in order of start
    subs,       \* submitScan invocations awaiting their delivery, in order of start
    nextId,     \* ids handed out so far + 1 (crypto.randomUUID never repeats)
    clock,      \* the instant new Date() reads; advanced by every stamping
    acked,      \* ids of entries for which a recordAttendance call returned success
    done,       \* the flushQueue invocation that returned in the latest task, or NoPass
    notes,      \* the notifications (onNotify calls) raised by the latest task
    calls,      \* the flushQueue calls made by the latest task
    typed,      \* the manualValue texts the latest task submitted
    built,      \* the last call of a payload builder: its inputs and its result
    camera,     \* ScanPanel's camera: streamRef, streams not stopped, pending calls
    scanner,    \* ScanPanel's handleScan: detect calls awaited, scanStatus, hint
    search,     \* the two search panels: query, requests, displayed results, status
    checkin     \* MemberCheckinPanel's auto-scan: members, lastScannedRef, selection

vars == <<online, storage, mounted, queue, depLen, passes, subs, nextId, clock,
          acked, done, notes, calls, typed, built, camera, scanner, search, checkin>>

\* The state of the panels' other machinery, which the queue's tasks leave alone.
panels == <<camera, scanner, search, checkin>>

\* The state of useOfflineQueue and submitScan, which that machinery leaves alone.
hookVars == <<online, storage, mounted, queue, depLen, passes, subs, nextId, clock,
              acked, done, notes, calls, typed, built>>

NoDeps == 0 - 1

----------------------------------------------------------------------------
(* Texts are sequences of characters.                                      *)

IsSpace(c) == c = " "

RECURSIVE TrimStart(_)
TrimStart(s) ==
    IF s = <<>> THEN <<>>
    ELSE IF IsSpace(Head(s)) THEN TrimStart(Tail(s)) ELSE s

RECURSIVE TrimEnd(_)
TrimEnd(s) ==
    IF s = <<>> THEN <<>>
    ELSE IF IsSpace(s[Len(s)]) THEN TrimEnd(SubSeq(s, 1, Len(s) - 1)) ELSE s

\* String.prototype.trim
Trim(s) == TrimEnd(TrimStart(s))

----------------------------------------------------------------------------
(* localStorage entry and its JSON text.                                   *)

\* getItem gives null for an absent key; otherwise the stored text, which is
\* unparsable, or JSON that is not an array, or the JSON array of a queue.
Absent == [kind |-> "absent", items |-> <<>>]
Garbage == [kind |-> "garbage", items |-> <<>>]
NonList == [kind |-> "nonlist", items |-> <<"object">>]

\* JSON.stringify(queue)
Stringify(q) == [kind |-> "list", items |-> q]

\* loadQueue without the Array.isArray check: whatever JSON.parse gave.
LoadQueueUnchecked(st) == st.items

\* loadQueue's return value: [] for null, for text JSON.parse throws on, and
\* for a parsed value that fails Array.isArray; st.items is the parsed value.
LoadQueue(st) ==
    IF st.kind = "list" THEN st.items ELSE <<>>

\* loadQueue's effect on the store: removeItem in the catch branch
StorageAfterLoad(st) ==
    IF st.kind = "garbage" THEN Absent ELSE st

\* persistQueue
PersistQueue(q) == Stringify(q)

\* createPendingScan
CreatePendingScan(text) ==
    [id |-> nextId, qrPayload |-> text, createdAt |-> clock]

Ids(q) == {q[i].id : i \in 1..Len(q)}

----------------------------------------------------------------------------
(* Inputs.                                                                 *)

\* Texts typed into the manual field.
ManualTexts == { <<"a">>, <<" ", "a">>, <<" ">> }

InitialStores == {Absent, Garbage, NonList, Stringify(<<>>)}

----------------------------------------------------------------------------
(* useOfflineQueue: enqueue.                                               *)

\* enqueue putting the new entry first: [createPendingScan(qrPayload), ...loadQueue()]
EnqueueNextPrepends(st, entry) == <<entry>> \o LoadQueue(st)

\* enqueue building on the mirror: [...queue, createPendingScan(qrPayload)]
EnqueueNextFromMirror(st, entry) == Append(queue, entry)

\* const next = [...loadQueue(), createPendingScan(qrPayload)]
EnqueueNext(st, entry) == Append(LoadQueue(st), entry)

\* A setQueue whose update never reaches the state.
SetQueueIgnored(live, q) ==
    queue' = queue

\* setQueue from a closure of a hook instance: a no-op once that instance is
\* unmounted (live = FALSE).
SetQueue(live, q) ==
    queue' = IF live THEN q ELSE queue

\* enqueue that updates the mirror and forgets persistQueue(next).
EnqueueMirrorOnly(live, text) ==
    LET next == EnqueueNext(storage, CreatePendingScan(text)) IN
    /\ SetQueue(live, next)
    /\ storage' = storage
    /\ nextId' = nextId + 1
    /\ clock' = clock + 1

\* enqueue(qrPayload), called through a hook instance
Enqueue(live, text) ==
    LET next == EnqueueNext(storage, CreatePendingScan(text)) IN
    /\ SetQueue(live, next)
    /\ storage' = PersistQueue(next)
    /\ nextId' = nextId + 1
    /\ clock' = clock + 1

----------------------------------------------------------------------------
(* useOfflineQueue: flushQueue.                                            *)

NoPass == [origin |-> "none"]

\* born: the ids handed out when the pass read the store; an entry with an id
\* of at least born was enqueued after the pass started.
NewPass(origin, stored) ==
    [origin |-> origin, live |-> TRUE, stored |-> stored, idx |-> 1,
     outcomes |-> <<>>, remaining |-> <<>>, flushed |-> 0, born |-> nextId]

\* One flushQueue call as its caller's task sees it: returned with the literal
\* { flushed: 0 } of an early return, or left awaiting its first delivery.
Call(origin, returned) == [origin |-> origin, returned |-> returned, flushed |-> 0]

\* A flushQueue without the navigator.onLine guard.
FlushAlways(isOnline) == TRUE

\* A catch block that keeps the failed item twice.
RetainTwice(remaining, item) == Append(Append(remaining, item), item)

\* if (typeof window === "undefined" || !navigator.onLine) return { flushed: 0 }
FlushAllowed(isOnline) == isOnline

CanFlush == Len(passes) < MaxPasses

\* flushQueue() up to its first await: the guards, the read of the store and
\* the first recordAttendance call.  With the runtime offline or the queue
\* empty it returns { flushed: 0 } at once and no pass is left awaiting.
\* isOnline is navigator.onLine as the call reads it.
Flush(origin, isOnline) ==
    IF ~FlushAllowed(isOnline)
    THEN /\ passes' = passes
         /\ storage' = storage
         /\ calls' = <<Call(origin, TRUE)>>
    ELSE LET stored == LoadQueue(storage) IN
         /\ stored # <<>> => CanFlush
         /\ storage' = StorageAfterLoad(storage)
         /\ calls' = <<Call(origin, stored = <<>>)>>
         /\ passes' = IF stored = <<>> THEN passes
                      ELSE Append(passes, NewPass(origin, stored))

\* A catch block that swallows the failure without keeping the item.
RetainDropsItem(remaining, item) == remaining

\* catch { remaining.push(item) }
Retain(remaining, item) == Append(remaining, item)

\* A loop that never counts a delivery.
CountFlushedNever(flushed) == flushed

\* flushed += 1
CountFlushed(flushed) == flushed + 1

\* `${flushed} queued scan(s) synced.` is raised by submitScan only, for the
\* pass it awaited; handleOnline and the effect discard the result (void).
SyncedNotes(origin, flushed) ==
    IF origin = "submit" /\ flushed > 0 THEN {"synced"} ELSE {}

Without(seq, p) == [i \in 1..(Len(seq) - 1) |-> IF i < p THEN seq[i] ELSE seq[i + 1]]

\* A loop body that persists the entries retained so far after every attempt.
LoopBodyPersists(st, remaining) == PersistQueue(remaining)

\* The store after one turn of the loop body, which has no storage statement:
\* the try/catch only calls recordAttendance, counts and pushes.
LoopBodyStore(st, remaining) == st

\* A loop that stops at the first failed delivery (a break in the catch block).
LoopEndsAtFailure(pass, ok) == ~ok \/ pass.idx = Len(pass.stored)

\* for (const item of stored): the loop is over after the last item, whatever
\* the outcomes were.
LoopEnds(pass, ok) == pass.idx = Len(pass.stored)

\* ok is the remote service's answer; it does not depend on navigator.onLine
\* at the time the answer is handled (an answer already received, or a service
\* on the same host, resolves the call after the runtime went offline).
\* The continuation of flushQueue when the awaited recordAttendance call of
\* pass p settles: the loop body's outcome for the item, then either the next
\* call or, after the last item, setQueue(remaining); persistQueue(remaining)
\* and the return to the caller.
Settle(p, ok) ==
    LET pass == passes[p]
        item == pass.stored[pass.idx]
        rem == IF ok THEN pass.remaining ELSE Retain(pass.remaining, item)
        fl == IF ok THEN CountFlushed(pass.flushed) ELSE pass.flushed
        stepped == [pass EXCEPT !.outcomes = Append(@, ok),
                                !.remaining = rem, !.flushed = fl]
    IN
    /\ acked' = IF ok THEN acked \cup {item.id} ELSE acked
    /\ IF LoopEnds(pass, ok)
       THEN /\ passes' = Without(passes, p)
            /\ SetQueue(pass.live, rem)
            /\ storage' = PersistQueue(rem)
            /\ done' = stepped
            /\ notes' = SyncedNotes(pass.origin, fl)
       ELSE /\ passes' = [passes EXCEPT ![p] = [stepped EXCEPT !.idx = @ + 1]]
            /\ done' = NoPass
            /\ notes' = {}
            /\ storage' = LoopBodyStore(storage, rem)
            /\ UNCHANGED queue
    /\ calls' = <<>>
    /\ typed' = {}
    /\ UNCHANGED panels
    /\ UNCHANGED <<online, mounted, depLen, subs, nextId, clock, built>>

----------------------------------------------------------------------------
(* useOfflineQueue: the hook instance and its effect.                      *)

\* A hook whose state starts empty, useState([]), instead of loading the store.
MountStartsEmpty ==
    /\ ~mounted
    /\ mounted' = TRUE
    /\ queue' = <<>>
    /\ depLen' = NoDeps
    /\ done' = NoPass
    /\ calls' = <<>>
    /\ typed' = {}
    /\ notes' = {}
    /\ UNCHANGED panels
    /\ UNCHANGED <<online, storage, passes, subs, nextId, clock, acked, built>>

\* useState(() => loadQueue()) of a new instance
MountHook ==
    /\ ~mounted
    /\ mounted' = TRUE
    /\ queue' = LoadQueue(storage)
    /\ storage' = StorageAfterLoad(storage)
    /\ depLen' = NoDeps
    /\ done' = NoPass
    /\ calls' = <<>>
    /\ typed' = {}
    /\ notes' = {}
    /\ UNCHANGED <<online, passes, subs, nextId, clock, acked, built>>

\* The scan panel is shown, as far as the queue is concerned.
Mount ==
    /\ MountHook
    /\ UNCHANGED panels

Orphan(rec) == [rec EXCEPT !.live = FALSE]

\* The view changes away from the scan panel: the effect's cleanup removes the
\* listener; awaited calls keep running, their setQueue now a no-op.
UnmountHook ==
    /\ mounted
    /\ mounted' = FALSE
    /\ queue' = <<>>
    /\ depLen' = NoDeps
    /\ passes' = [p \in 1..Len(passes) |-> Orphan(passes[p])]
    /\ subs' = [s \in 1..Len(subs) |-> Orphan(subs[s])]
    /\ done' = NoPass
    /\ calls' = <<>>
    /\ typed' = {}
    /\ notes' = {}
    /\ UNCHANGED <<online, storage, nextId, clock, acked, built>>

Unmount ==
    /\ UnmountHook
    /\ UNCHANGED panels

\* The page is reloaded (process restart): every pending continuation is gone.
Reload ==
    /\ mounted \/ passes # <<>> \/ subs # <<>>
    /\ mounted' = FALSE
    /\ queue' = <<>>
    /\ depLen' = NoDeps
    /\ passes' = <<>>
    /\ subs' = <<>>
    /\ done' = NoPass
    /\ calls' = <<>>
    /\ typed' = {}
    /\ notes' = {}
    /\ UNCHANGED panels
    /\ UNCHANGED <<online, storage, nextId, clock, acked, built>>

\* if (navigator.onLine && queue.length) void flushQueue()
EffectFlushes == online /\ Len(queue) > 0

\* The effect body, run after the first render and after every render in which
\* queue.length differs from the one it last ran with; it also (re)registers
\* handleOnline.
RunEffect ==
    /\ mounted
    /\ depLen # Len(queue)
    /\ depLen' = Len(queue)
    /\ IF EffectFlushes
       THEN Flush("effect", online)
       ELSE calls' = <<>> /\ UNCHANGED <<passes, storage>>
    /\ done' = NoPass
    /\ typed' = {}
    /\ notes' = {}
    /\ UNCHANGED panels
    /\ UNCHANGED <<online, mounted, queue, subs, nextId, clock, acked, built>>

\* An effect that never registers handleOnline.
ListenerNeverRegistered == FALSE

\* An effect that registers handleOnline only inside its queue.length branch.
ListenerOnlyWithBacklog == mounted /\ depLen # NoDeps /\ Len(queue) > 0

\* The listener is registered from the effect's first run until unmount.
Listening == mounted /\ depLen # NoDeps

\* The runtime regains connectivity: navigator.onLine turns true and the
\* 'online' event runs handleOnline, if registered.
GoOnline ==
    /\ ~online
    /\ online' = TRUE
    /\ IF Listening
       THEN Flush("online", TRUE)
       ELSE calls' = <<>> /\ UNCHANGED <<passes, storage>>
    /\ done' = NoPass
    /\ typed' = {}
    /\ notes' = {}
    /\ UNCHANGED panels
    /\ UNCHANGED <<mounted, queue, depLen, subs, nextId, clock, acked, built>>

GoOffline ==
    /\ online
    /\ online' = FALSE
    /\ done' = NoPass
    /\ calls' = <<>>
    /\ typed' = {}
    /\ notes' = {}
    /\ UNCHANGED panels
    /\ UNCHANGED <<storage, mounted, queue, depLen, passes, subs, nextId, clock,
                   acked, built>>

----------------------------------------------------------------------------
(* ScanPanel: submitScan and its callers.                                  *)

\* Room for one more submission: every call still awaited may yet enqueue.
CanEnqueue == nextId + Len(subs) <= MaxEntries

CanSubmit == Len(subs) < MaxSubmits /\ CanEnqueue

\* onNotify of the catch block: "Scan couldn't reach the server. Saved locally."
QueuedNotes == {"saved"}

\* pendingCount is the one of the render whose submitScan closure is called.
NewSub(text) == [text |-> text, captured |-> Len(queue), live |-> TRUE]

\* submitScan(payload) up to its first await.  Offline, the throw lands in the
\* catch block at once: enqueue(payload) and the "Saved locally" notification.
SubmitScan(text) ==
    /\ mounted
    /\ CanSubmit
    /\ IF ~online
       THEN /\ Enqueue(TRUE, text)
            /\ subs' = subs
            /\ notes' = QueuedNotes
       ELSE /\ subs' = Append(subs, NewSub(text))
            /\ notes' = {}
            /\ UNCHANGED <<queue, storage, nextId, clock>>
    /\ done' = NoPass
    /\ calls' = <<>>
    /\ UNCHANGED <<online, mounted, depLen, passes, acked, built>>

\* handleManualSubmit passing the field's text as typed: submitScan(manualValue)
HandleManualSubmitUntrimmed(raw) ==
    /\ Trim(raw) # <<>>
    /\ SubmitScan(raw)
    /\ typed' = {raw}
    /\ UNCHANGED panels

\* handleManualSubmit: if (!manualValue.trim()) return; submitScan(manualValue.trim())
HandleManualSubmit(raw) ==
    /\ Trim(raw) # <<>>
    /\ SubmitScan(Trim(raw))
    /\ typed' = {raw}
    /\ UNCHANGED panels

\* if (pendingCount > 0) { const { flushed } = await flushQueue() ... }
DrainsAfterSuccess(captured) == captured > 0

\* submitScan whose catch block also runs after a successful delivery (a throw
\* of the code that follows the await): the delivered payload is enqueued.
SubmitSettleQueuesDelivered(s, ok) ==
    LET sub == subs[s] IN
    /\ subs' = Without(subs, s)
    /\ Enqueue(sub.live, sub.text)
    /\ notes' = IF ok THEN {"recorded", "saved"} ELSE {"saved"}
    /\ done' = NoPass
    /\ calls' = <<>>
    /\ typed' = {}
    /\ UNCHANGED panels
    /\ UNCHANGED <<online, mounted, depLen, passes, acked, built>>

\* The continuation of submitScan when its recordAttendance call settles.
SubmitSettle(s, ok) ==
    LET sub == subs[s] IN
    /\ subs' = Without(subs, s)
    /\ IF ok
       THEN /\ notes' = {"recorded"}
            /\ IF DrainsAfterSuccess(sub.captured)
               THEN Flush("submit", online)
               ELSE calls' = <<>> /\ UNCHANGED <<passes, storage>>
            /\ UNCHANGED <<queue, nextId, clock>>
       ELSE /\ Enqueue(sub.live, sub.text)
            /\ notes' = QueuedNotes
            /\ calls' = <<>>
            /\ UNCHANGED passes
    /\ done' = NoPass
    /\ typed' = {}
    /\ UNCHANGED panels
    /\ UNCHANGED <<online, mounted, depLen, acked, built>>

\* enqueue run by another tab on the same storage key: its own mirror is
\* that tab's state; this tab's mirror is not told.
OtherTabEnqueue(text) ==
    /\ CanEnqueue
    /\ Enqueue(FALSE, text)
    /\ done' = NoPass
    /\ calls' = <<>>
    /\ typed' = {}
    /\ notes' = {}
    /\ UNCHANGED panels
    /\ UNCHANGED <<online, mounted, depLen, passes, subs, acked, built>>

----------------------------------------------------------------------------

(***************************************************************************)
(* ScanPanel's camera: initCamera, the camera effect and its cleanup.       *)
(***************************************************************************)

\* streamRef of the mounted instance (0 is null), the streams acquired and not
\* stopped, the getUserMedia calls awaited by the mounted instance and by
\* instances already unmounted, and the next stream the platform hands out.
NoCamera == [ref |-> 0, open |-> {}, pending |-> 0, orphaned |-> 0, next |-> 1]

CanAcquire == camera.pending + camera.orphaned + camera.next - 1 < MaxStreams

\* initCamera up to its await: getUserMedia is called, nothing else happens.
InitCamera(cam) == [cam EXCEPT !.pending = @ + 1]

\* The panel is shown: a new instance (streamRef null) whose camera effect
\* calls initCamera.
MountPanel ==
    /\ CanAcquire
    /\ MountHook
    /\ camera' = InitCamera([camera EXCEPT !.ref = 0])
    /\ UNCHANGED <<scanner, search, checkin>>

\* The "Try focusing" button: onClick={initCamera}
TryFocusing ==
    /\ mounted
    /\ CanAcquire
    /\ camera' = InitCamera(camera)
    /\ UNCHANGED <<scanner, search, checkin>>
    /\ UNCHANGED hookVars

\* The stream a resolved getUserMedia hands to the instance that called it:
\* streamRef.current = stream, whatever streamRef held.
StoreStream(cam, own) ==
    [cam EXCEPT !.ref = IF own THEN cam.next ELSE @,
                !.open = @ \cup {cam.next},
                !.next = @ + 1,
                !.pending = IF own THEN @ - 1 ELSE @,
                !.orphaned = IF own THEN @ ELSE @ - 1]

\* getUserMedia resolves, for the mounted instance (own) or for one that was
\* unmounted while it waited.
UserMediaResolves(own) ==
    /\ IF own THEN camera.pending > 0 ELSE camera.orphaned > 0
    /\ camera' = StoreStream(camera, own)
    /\ UNCHANGED <<scanner, search, checkin>>
    /\ UNCHANGED hookVars

\* getUserMedia rejects: the catch block only sets the hint.
UserMediaRejects(own) ==
    /\ IF own THEN camera.pending > 0 ELSE camera.orphaned > 0
    /\ camera' = [camera EXCEPT !.pending = IF own THEN @ - 1 ELSE @,
                                !.orphaned = IF own THEN @ ELSE @ - 1]
    /\ UNCHANGED <<scanner, search, checkin>>
    /\ UNCHANGED hookVars

\* The camera effect's cleanup: the tracks of streamRef.current are stopped.
Cleanup(cam) ==
    [cam EXCEPT !.open = @ \ {cam.ref},
                !.orphaned = @ + cam.pending,
                !.pending = 0]

\* The view changes away from the scan panel.
UnmountPanel ==
    /\ UnmountHook
    /\ camera' = Cleanup(camera)
    /\ UNCHANGED <<scanner, search, checkin>>

NextCamera ==
    \/ MountPanel
    \/ UnmountPanel
    \/ TryFocusing
    \/ \E own \in BOOLEAN : UserMediaResolves(own)
    \/ \E own \in BOOLEAN : UserMediaRejects(own)

(***************************************************************************)
(* ScanPanel's handleScan.                                                 *)
(***************************************************************************)

\* detect calls awaited, and scanStatus as handleScan sets it (the hint, and
\* what submitScan writes to scanStatus, are display only and not followed).
IdleScanner == [detecting |-> 0, scanStatus |-> "Ready"]

\* What handleScan finds when the button is pressed: no detector, a video
\* without dimensions yet, or a frame to hand to the detector.
ScanConditions == {"unsupported", "warming", "frame"}

\* Texts a detected code carries (rawValue).
ScanTexts == { <<"a">> }

\* What detect settles with: a rejection, no barcode, or one barcode.
DetectOutcomes ==
    {[ok |-> FALSE, codes |-> <<>>], [ok |-> TRUE, codes |-> <<>>]}
        \cup {[ok |-> TRUE, codes |-> <<t>>] : t \in ScanTexts}

\* handleScan up to its return or its await of detect
HandleScan(cond) ==
    /\ mounted
    /\ cond = "frame" => scanner.detecting < MaxDetects
    /\ scanner' =
         CASE cond = "unsupported" -> [scanner EXCEPT !.scanStatus = "Error"]
           [] cond = "warming" -> [scanner EXCEPT !.scanStatus = "Scanning"]
           [] cond = "frame" ->
                [scanner EXCEPT !.scanStatus = "Scanning", !.detecting = @ + 1]
    /\ notes' = {}
    /\ done' = NoPass
    /\ calls' = <<>>
    /\ typed' = {}
    /\ UNCHANGED <<camera, search, checkin>>
    /\ UNCHANGED <<online, storage, mounted, queue, depLen, passes, subs, nextId,
                   clock, acked, built>>

\* The catch block of handleScan: "No QR code was found. Try again."
Missed(scan) ==
    [scan EXCEPT !.detecting = @ - 1, !.scanStatus = "Error"]

\* handleScan whose catch block queues the frame it could not read.
DetectSettleQueuesMiss(outcome) ==
    /\ mounted
    /\ scanner.detecting > 0
    /\ CanSubmit
    /\ scanner' = Missed(scanner)
    /\ Enqueue(TRUE, <<"a">>)
    /\ notes' = {"noqr"}
    /\ done' = NoPass
    /\ calls' = <<>>
    /\ typed' = {}
    /\ UNCHANGED <<camera, search, checkin>>
    /\ UNCHANGED <<online, mounted, depLen, passes, subs, acked, built>>

\* The continuation of handleScan when detect settles.
DetectSettle(outcome) ==
    /\ mounted
    /\ scanner.detecting > 0
    /\ IF outcome.ok /\ outcome.codes # <<>>
       THEN /\ SubmitScan(outcome.codes[1])
            /\ scanner' = [scanner EXCEPT !.detecting = @ - 1]
       ELSE /\ scanner' = Missed(scanner)
            /\ notes' = {"noqr"}
            /\ done' = NoPass
            /\ calls' = <<>>
            /\ UNCHANGED <<online, storage, mounted, queue, depLen, passes, subs,
                           nextId, clock, acked, built>>
    /\ typed' = {}
    /\ UNCHANGED <<camera, search, checkin>>

(***************************************************************************)
(* SearchMemberPanel and SearchEventPanel: the effect on the query (date).  *)
(* The application shows one view at a time, so at most one of the two is   *)
(* mounted.                                                                 *)
(***************************************************************************)

Panels == {"member", "event"}

\* Values of the query (date) field; "" is the blank one.
Queries == {"", "x", "y"}

\* The mounted panel (view), its query, results (named by the query they
\* answer, "" for the empty list) and status; the requests not yet settled,
\* oldest first; and, of the latest task, whether it called onNotify (alert)
\* and the query of the aborted request it dropped (ignored).
NoSearch ==
    [view |-> "none", query |-> "", reqs |-> <<>>, results |-> "",
     status |-> "idle", alert |-> FALSE, ignored |-> ""]

Quiet(srch) == [srch EXCEPT !.alert = FALSE, !.ignored = ""]

\* A cleanup that clears the timer and forgets controller.abort().
SupersededKeepsSent(reqs) ==
    SelectSeq(reqs, LAMBDA r : r.phase = "sent")

\* The cleanup of the effect: clearTimeout(handle) (a timer not yet fired
\* never fires) and controller.abort().
Superseded(reqs) ==
    LET sent == SelectSeq(reqs, LAMBDA r : r.phase = "sent") IN
    [i \in 1..Len(sent) |-> [sent[i] EXCEPT !.aborted = TRUE]]

\* The body of the effect for the value q: a blank value empties the results;
\* otherwise the member panel arms its 450 ms timer and the event panel sets
\* "loading" and sends the request at once.
Effect(srch, q) ==
    IF q = ""
    THEN [srch EXCEPT !.query = q, !.results = "", !.status = "idle"]
    ELSE IF srch.view = "member"
         THEN [srch EXCEPT !.query = q,
                           !.reqs = Append(@, [q |-> q, phase |-> "timer",
                                               aborted |-> FALSE])]
         ELSE [srch EXCEPT !.query = q, !.status = "loading",
                           !.reqs = Append(@, [q |-> q, phase |-> "sent",
                                               aborted |-> FALSE])]

\* The view changes to a search panel: fresh state, the effect runs for "".
OpenSearch(p) ==
    /\ search.view = "none"
    /\ search' = Effect([NoSearch EXCEPT !.view = p, !.reqs = search.reqs], "")
    /\ UNCHANGED <<camera, scanner, checkin>>
    /\ UNCHANGED hookVars

\* The view changes away: the cleanup runs, the panel's state is gone.
CloseSearch ==
    /\ search.view # "none"
    /\ search' = [NoSearch EXCEPT !.reqs = Superseded(search.reqs)]
    /\ UNCHANGED <<camera, scanner, checkin>>
    /\ UNCHANGED hookVars

\* The user changes the query (date): cleanup of the previous run of the
\* effect, then its body for the new value.
SetQuery(q) ==
    /\ search.view # "none"
    /\ q # search.query
    /\ Len(Superseded(search.reqs)) < MaxRequests
    /\ search' = Effect([Quiet(search) EXCEPT !.reqs = Superseded(@)], q)
    /\ UNCHANGED <<camera, scanner, checkin>>
    /\ UNCHANGED hookVars

\* The member panel's timer fires: setStatus("loading"), the request is sent.
TimerFires(r) ==
    /\ search.reqs[r].phase = "timer"
    /\ search' = [Quiet(search) EXCEPT !.status = "loading",
                                       !.reqs[r].phase = "sent"]
    /\ UNCHANGED <<camera, scanner, checkin>>
    /\ UNCHANGED hookVars

\* The request r settles.  An aborted fetch rejects with AbortError and the
\* catch block returns; otherwise the data is shown, or the error reported.
Responds(r, ok) ==
    LET req == search.reqs[r]
        rest == [Quiet(search) EXCEPT !.reqs = Without(@, r)] IN
    /\ req.phase = "sent"
    /\ search' =
         IF req.aborted THEN [rest EXCEPT !.ignored = req.q]
         ELSE IF ok THEN [rest EXCEPT !.results = req.q, !.status = "idle"]
         ELSE [rest EXCEPT !.status = "error", !.alert = TRUE]
    /\ UNCHANGED <<camera, scanner, checkin>>
    /\ UNCHANGED hookVars

NextSearch ==
    \/ \E p \in Panels : OpenSearch(p)
    \/ CloseSearch
    \/ \E q \in Queries : SetQuery(q)
    \/ \E r \in 1..Len(search.reqs) : TimerFires(r)
    \/ \E r \in 1..Len(search.reqs), ok \in BOOLEAN : Responds(r, ok)

(***************************************************************************)
(* MemberCheckinPanel: the auto-scan and its duplicate-scan guard.          *)
(***************************************************************************)

\* What the camera may show: the QR code of member "A", an event's QR code.
Codes == {"A", "E"}

\* The panel after its first render and effects: members not yet loaded,
\* nothing selected, lastScannedRef "" (the reset effect has run once, for the
\* initial selectedMember and eventInfo, which deps holds).
NewCheckin ==
    [loaded |-> FALSE, inView |-> "none", lastScannedRef |-> "",
     selectedMember |-> "", eventInfo |-> FALSE,
     deps |-> <<"", FALSE>>]

\* getMembers resolves: setMembers(data.members)
MembersLoaded ==
    /\ ~checkin.loaded
    /\ checkin' = [checkin EXCEPT !.loaded = TRUE]
    /\ UNCHANGED <<camera, scanner, search>>
    /\ UNCHANGED hookVars

\* A code is held in front of the camera, or taken away.
Show(c) ==
    /\ c # checkin.inView
    /\ checkin' = [checkin EXCEPT !.inView = c]
    /\ UNCHANGED <<camera, scanner, search>>
    /\ UNCHANGED hookVars

\* processQRCode: a code equal to lastScannedRef is dropped; otherwise it is
\* remembered, and an event code sets eventInfo, a member code found in the
\* members of this render sets selectedMember.
ProcessQRCode(chk, qrData) ==
    IF qrData = chk.lastScannedRef
    THEN chk
    ELSE [chk EXCEPT !.lastScannedRef = qrData,
                     !.eventInfo = IF qrData = "E" THEN TRUE ELSE @,
                     !.selectedMember =
                         IF qrData # "E" /\ chk.loaded THEN qrData ELSE @]

\* One tick of the 300 ms interval: performAutoScan decodes the frame.
ScanTick ==
    /\ checkin.inView # "none"
    /\ checkin' = ProcessQRCode(checkin, checkin.inView)
    /\ UNCHANGED <<camera, scanner, search>>
    /\ UNCHANGED hookVars

\* The member dropdown: setSelectedMember(e.target.value)
SelectMember(m) ==
    /\ m # checkin.selectedMember
    /\ m # "" => checkin.loaded
    /\ checkin' = [checkin EXCEPT !.selectedMember = m]
    /\ UNCHANGED <<camera, scanner, search>>
    /\ UNCHANGED hookVars

\* The effect on [selectedMember, eventInfo], run after a render in which one
\* of the two changed: with neither set, lastScannedRef is cleared.
ResetEffect ==
    /\ checkin.deps # <<checkin.selectedMember, checkin.eventInfo>>
    /\ checkin' =
         [checkin EXCEPT !.deps = <<checkin.selectedMember, checkin.eventInfo>>,
                         !.lastScannedRef =
                             IF checkin.selectedMember = "" /\ ~checkin.eventInfo
                             THEN "" ELSE @]
    /\ UNCHANGED <<camera, scanner, search>>
    /\ UNCHANGED hookVars

\* handleSubmit whose checkIn call succeeded.
CheckedIn ==
    /\ checkin.selectedMember # ""
    /\ checkin' = [checkin EXCEPT !.selectedMember = "", !.eventInfo = FALSE,
                                  !.lastScannedRef = ""]
    /\ UNCHANGED <<camera, scanner, search>>
    /\ UNCHANGED hookVars

NextCheckin ==
    \/ MembersLoaded
    \/ \E c \in Codes \cup {"none"} : Show(c)
    \/ ScanTick
    \/ \E m \in {"", "A"} : SelectMember(m)
    \/ ResetEffect
    \/ CheckedIn


Init ==
    /\ online \in BOOLEAN
    /\ storage \in InitialStores
    /\ mounted = FALSE
    /\ queue = <<>>
    /\ depLen = NoDeps
    /\ passes = <<>>
    /\ subs = <<>>
    /\ nextId = 1
    /\ clock = 1
    /\ acked = {}
    /\ done = NoPass
    /\ notes = {}
    /\ calls = <<>>
    /\ typed = {}
    /\ built = [kind |-> "none"]
    /\ camera = NoCamera
    /\ scanner = IdleScanner
    /\ search = NoSearch
    /\ checkin = NewCheckin

Next ==
    \/ Mount
    \/ Unmount
    \/ Reload
    \/ RunEffect
    \/ GoOnline
    \/ GoOffline
    \/ \E raw \in ManualTexts : HandleManualSubmit(raw)
    \/ \E s \in 1..Len(subs), ok \in BOOLEAN : SubmitSettle(s, ok)
    \/ \E p \in 1..Len(passes), ok \in BOOLEAN : Settle(p, ok)
    \/ \E text \in {Trim(raw) : raw \in ManualTexts} \ {<<>>} : OtherTabEnqueue(text)

Spec == Init /\ [][Next]_vars

----------------------------------------------------------------------------
(* qr-format: the payload builders.                                        *)

\* Bound on the instants the builders stamp.
MaxClock == 3

NameTexts == { <<>>, <<" ">>, <<"a">>, <<" ", "a", " ">>, <<"b">> }
FieldTexts == { <<>>, <<" ">>, <<"A", "1">>, <<"A", "1", " ">> }

\* JSON.stringify of the object literal: its keys in source order.
GenerateMemberPayload(name, membershipId) ==
    << <<"name", Trim(name)>>, <<"time", clock>>, <<"type", "member">>,
       <<"membershipId", Trim(membershipId)>> >>

\* A guest builder copied from the member one, the fourth key left as it was.
GenerateGuestPayloadMemberKey(name, referrer) ==
    << <<"name", Trim(name)>>, <<"time", clock>>, <<"type", "guest">>,
       <<"membershipId", Trim(referrer)>> >>

GenerateGuestPayload(name, referrer) ==
    << <<"name", Trim(name)>>, <<"time", clock>>, <<"type", "guest">>,
       <<"referrer", Trim(referrer)>> >>

\* What a builder that rejected its input would give instead of a text.
ValidationError == <<"ValidationError">>

GenerateMember(name, membershipId) ==
    /\ clock < MaxClock
    /\ built' = [kind |-> "member", name |-> name, field |-> membershipId,
                 out |-> GenerateMemberPayload(name, membershipId)]
    /\ clock' = clock + 1
    /\ UNCHANGED panels
    /\ UNCHANGED <<online, storage, mounted, queue, depLen, passes, subs, nextId,
                   acked, done, notes, calls, typed>>

GenerateGuest(name, referrer) ==
    /\ clock < MaxClock
    /\ built' = [kind |-> "guest", name |-> name, field |-> referrer,
                 out |-> GenerateGuestPayload(name, referrer)]
    /\ clock' = clock + 1
    /\ UNCHANGED panels
    /\ UNCHANGED <<online, storage, mounted, queue, depLen, passes, subs, nextId,
                   acked, done, notes, calls, typed>>

NextCodec ==
    \/ \E name \in NameTexts, field \in FieldTexts : GenerateMember(name, field)
    \/ \E name \in NameTexts, field \in FieldTexts : GenerateGuest(name, field)

SpecCodec == Init /\ [][NextCodec]_vars

----------------------------------------------------------------------------
(* Reconciliation on regaining connectivity: the user acts only while the  *)
(* runtime is offline, in one tab; once it is online again nothing but the *)
(* program's own tasks run, and the remote service accepts every delivery. *)
(* Effects do run and awaited calls do settle, hence the weak fairness.    *)

Accepted == \E p \in 1..Len(passes) : Settle(p, TRUE)

NextAuto ==
    \/ ~online /\ Mount
    \/ ~online /\ \E raw \in ManualTexts : HandleManualSubmit(raw)
    \/ GoOnline
    \/ RunEffect
    \/ Accepted

SpecAuto ==
    /\ Init
    /\ [][NextAuto]_vars
    /\ WF_vars(RunEffect)
    /\ WF_vars(Accepted)

\* The same where the remote service may also refuse a delivery.
Answered == \E p \in 1..Len(passes), ok \in BOOLEAN : Settle(p, ok)

NextRedrain ==
    \/ ~online /\ Mount
    \/ ~online /\ \E raw \in ManualTexts : HandleManualSubmit(raw)
    \/ GoOnline
    \/ RunEffect
    \/ Answered

SpecRedrain ==
    /\ Init
    /\ [][NextRedrain]_vars
    /\ WF_vars(RunEffect)
    /\ WF_vars(Answered)

\* The scan panel's camera on its own: the panel shown and hidden, the button
\* pressed, the platform answering.
SpecCamera == Init /\ [][NextCamera]_vars

\* The search panels on their own.
SpecSearch == Init /\ [][NextSearch]_vars

\* The check-in panel on its own; the interval keeps ticking, effects run and
\* the members request is answered.
SpecCheckin ==
    /\ Init
    /\ [][NextCheckin]_vars
    /\ WF_vars(ScanTick)
    /\ WF_vars(ResetEffect)
    /\ WF_vars(MembersLoaded)

\* handleManualSubmit with whatever the field holds: text that is empty after
\* trimming returns at once, anything else goes to submitScan.
ManualSubmitClick(raw) ==
    IF Trim(raw) = <<>>
    THEN /\ mounted
         /\ typed' = {raw}
         /\ notes' = {}
         /\ done' = NoPass
         /\ calls' = <<>>
         /\ UNCHANGED panels
         /\ UNCHANGED <<online, storage, mounted, queue, depLen, passes, subs,
                        nextId, clock, acked, built>>
    ELSE HandleManualSubmit(raw)

\* One mounted scan panel, no other tab: the panel is shown once and stays.
NextPanel ==
    \/ Mount
    \/ RunEffect
    \/ GoOnline
    \/ GoOffline
    \/ \E raw \in ManualTexts : ManualSubmitClick(raw)
    \/ \E cond \in ScanConditions : HandleScan(cond)
    \/ \E outcome \in DetectOutcomes : DetectSettle(outcome)
    \/ \E s \in 1..Len(subs), ok \in BOOLEAN : SubmitSettle(s, ok)
    \/ \E p \in 1..Len(passes), ok \in BOOLEAN : Settle(p, ok)

SpecPanel == Init /\ [][NextPanel]_vars

\* The same without the detector: the hook under one panel that stays mounted.
NextSolo ==
    \/ Mount
    \/ RunEffect
    \/ GoOnline
    \/ GoOffline
    \/ \E raw \in ManualTexts : HandleManualSubmit(raw)
    \/ \E s \in 1..Len(subs), ok \in BOOLEAN : SubmitSettle(s, ok)
    \/ \E p \in 1..Len(passes), ok \in BOOLEAN : Settle(p, ok)

SpecSolo == Init /\ [][NextSolo]_vars

----------------------------------------------------------------------------
(* Claims.                                                                 *)

Stored == LoadQueue(storage)

\* C1: no queued scan is ever lost: every entry ever enqueued is, at every
\* later moment, still in the persisted queue or has had a successful delivery.
C1_NoQueuedScanLost ==
    \A id \in 1..(nextId - 1) : id \in Ids(Stored) \/ id \in acked

InFlightId(pass) == pass.stored[pass.idx].id

\* C2: at most one drain pass is in flight at any time, and no queued entry has
\* two delivery attempts in flight at the same time.
C2_SingleDrainInFlight ==
    /\ Len(passes) <= 1
    /\ \A p, q \in 1..Len(passes) :
           p # q => InFlightId(passes[p]) # InFlightId(passes[q])

\* The ids of the queued entries for which this step issues a delivery call:
\* the first item of a pass that starts, or the next item of a pass that moves on.
Issued ==
    IF Len(passes') = Len(passes) + 1
    THEN {InFlightId(passes'[Len(passes')])}
    ELSE IF Len(passes') = Len(passes)
    THEN {InFlightId(passes'[p]) : p \in {q \in 1..Len(passes) : passes'[q].idx # passes[q].idx}}
    ELSE {}

\* C3: once a delivery attempt for a queued entry has returned success, no
\* later delivery attempt is ever made for it.
C3_NoAttemptAfterSuccess ==
    [][\A id \in Issued : id \notin acked]_vars

Increasing(q) == \A i, j \in 1..Len(q) : i < j => q[i].id < q[j].id

\* C4: delivery order matches enqueue order: a drain pass attempts its entries
\* oldest first, and every call it issued before the one in flight has settled.
C4_DeliveryInEnqueueOrder ==
    /\ \A p \in 1..Len(passes) :
           /\ Increasing(passes[p].stored)
           /\ Len(passes[p].outcomes) = passes[p].idx - 1
    /\ done # NoPass =>
           /\ Increasing(done.stored)
           /\ Len(done.outcomes) = Len(done.stored)

C4_Witness ==
    \E p \in 1..Len(passes) :
        /\ Len(passes[p].stored) = 3
        /\ passes[p].idx = 3
        /\ passes[p].outcomes = <<TRUE, TRUE>>

RECURSIVE Failed(_, _)
\* The sub-list of the entries whose delivery failed, in their order.
Failed(stored, outcomes) ==
    IF stored = <<>> THEN <<>>
    ELSE IF Head(outcomes)
         THEN Failed(Tail(stored), Tail(outcomes))
         ELSE <<Head(stored)>> \o Failed(Tail(stored), Tail(outcomes))

\* C5: when a drain pass returns, the persisted queue is exactly the sub-list
\* of the entries read at its start whose delivery failed, each unchanged and
\* in the original order.
C5_RetainsExactlyTheFailed ==
    done # NoPass => storage = Stringify(Failed(done.stored, done.outcomes))

C5_Witness ==
    /\ done # NoPass
    /\ Len(done.stored) = 3
    /\ done.outcomes = <<TRUE, FALSE, TRUE>>
    /\ Stored = <<done.stored[2]>>

\* C6: an enqueued entry survives a restart: enqueue leaves it at the tail of
\* the persisted queue, a hook instance created afterwards starts with exactly
\* the persisted entries in its mirror, and the drain its first effect starts
\* while online attempts exactly those entries.
C6_SurvivesRestart ==
    [][/\ nextId' = nextId + 1 =>
              /\ storage'.kind = "list"
              /\ Len(storage'.items) > 0
              /\ storage'.items[Len(storage'.items)].id = nextId
       /\ (~mounted /\ mounted') =>
              /\ queue' = Stored
              /\ LoadQueue(storage') = Stored
       /\ (mounted /\ mounted' /\ depLen = NoDeps /\ depLen' # NoDeps
             /\ online /\ queue # <<>> /\ Stored # <<>>) =>
              /\ Len(passes') = Len(passes) + 1
              /\ passes'[Len(passes')].stored = Stored
      ]_vars

\* A fresh instance, its effect not yet run, offline, holding the one entry
\* ever enqueued, with nothing awaited and nothing delivered.
C6_Witness ==
    /\ ~online
    /\ mounted
    /\ depLen = NoDeps
    /\ notes = {}
    /\ nextId = 2
    /\ Len(queue) = 1
    /\ queue = Stored
    /\ passes = <<>>
    /\ subs = <<>>
    /\ acked = {}

\* C7: loading the queue never fails: with the key absent, unparsable or not a
\* list, a new hook instance starts with the empty queue, and a following
\* enqueue leaves a persisted queue with exactly the one new entry.
C7_CorruptStoreLoadsEmpty ==
    [][storage.kind # "list" =>
          /\ (~mounted /\ mounted') => queue' = <<>>
          /\ nextId' = nextId + 1 =>
                 /\ storage'.kind = "list"
                 /\ Len(storage'.items) = 1
                 /\ storage'.items[1].id = nextId
      ]_vars

C7_Witness ==
    /\ storage = NonList
    /\ mounted
    /\ queue = <<>>

\* C8: building a member or guest payload with a name, membershipId or referrer
\* that is empty after trimming fails with a validation error.
C8_EmptyFieldRejected ==
    (built.kind # "none" /\ (Trim(built.name) = <<>> \/ Trim(built.field) = <<>>))
        => built.out = ValidationError

\* C9: automatic reconciliation: once the runtime is online with the scan panel
\* mounted, without further user action and with the remote service accepting,
\* eventually the persisted queue is empty and pendingCount is 0.
C9_EventuallyReconciled ==
    (online /\ mounted) ~> (Stored = <<>> /\ Len(queue) = 0)

\* The queue emptied by a pass that handleOnline started.
C9_Witness ==
    /\ online
    /\ mounted
    /\ done # NoPass
    /\ done.origin = "online"
    /\ done.flushed = Len(done.stored)
    /\ Stored = <<>>
    /\ Len(queue) = 0

\* C10: every drain pass that delivers at least one entry is followed by a
\* notification reporting the sync.
C10_SyncIsNotified ==
    (done # NoPass /\ done.flushed > 0) => "synced" \in notes

\* The persisted queue after this step is the one before it plus one new entry
\* at its tail, carrying text, an id never used before and the current instant;
\* the step raises the "Saved locally" notification.
QueuedAtTail(text) ==
    /\ nextId \notin Ids(Stored)
    /\ storage' = Stringify(Append(Stored,
                      [id |-> nextId, qrPayload |-> text, createdAt |-> clock]))
    /\ notes' = {"saved"}

\* C11: every failure of submitScan's immediate delivery attempt (the runtime
\* offline at the call, or the awaited recordAttendance call failing) ends
\* with exactly one new entry, holding the submitted payload text, a fresh id
\* and the current timestamp, at the tail of the persisted queue.
C11_FailureEndsQueued ==
    [][/\ \A s \in 1..Len(subs) :
              SubmitSettle(s, FALSE) => QueuedAtTail(subs[s].text)
       /\ \A raw \in ManualTexts :
              (~online /\ HandleManualSubmit(raw)) => QueuedAtTail(Trim(raw))
      ]_vars

\* Online, a submission whose delivery failed has just been saved behind an
\* older entry.
C11_Witness ==
    /\ online
    /\ notes = {"saved"}
    /\ Len(Stored) >= 2
    /\ Stored[Len(Stored)].id = nextId - 1
    /\ Stored[Len(Stored)].createdAt = clock - 1

\* C12: a payload whose foreground delivery succeeded is never added to the
\* queue: the task that raises the success notification (and may start the
\* post-success drain) creates no entry and adds none to the persisted queue,
\* and no step of a drain pass creates an entry.
C12_DeliveredNeverQueued ==
    [][/\ "recorded" \in notes' =>
              /\ nextId' = nextId
              /\ Ids(LoadQueue(storage')) \subseteq Ids(Stored)
       /\ (calls' # <<>> \/ done' # NoPass
              \/ (Len(passes') = Len(passes) /\ passes' # passes)) =>
              nextId' = nextId
      ]_vars

\* A delivered submission whose post-success drain is now awaiting its first
\* delivery, the store still holding what it held.
C12_Witness ==
    /\ notes = {"recorded"}
    /\ calls = <<Call("submit", FALSE)>>
    /\ Stored # <<>>
    /\ passes[Len(passes)].stored = Stored

\* C13: at most one foreground submission attempt is in flight at a time: while
\* a submitScan call is awaiting its delivery, a further submit request does not
\* start a second one.
C13_SingleAttemptInFlight ==
    Len(subs) <= 1

\* C14: each transition of the runtime from offline to online, with the hook's
\* listener registered, triggers exactly one drain pass: one flushQueue call,
\* which either returns at once on an empty store or starts one pass over the
\* persisted entries.
C14_OnlineTriggersOneDrain ==
    [][(~online /\ online' /\ mounted /\ depLen # NoDeps) =>
          /\ Len(calls') = 1
          /\ calls'[1].origin = "online"
          /\ calls'[1].returned = (Stored = <<>>)
          /\ passes' = IF Stored = <<>> THEN passes
                       ELSE Append(passes, NewPass("online", Stored))
      ]_vars

\* The runtime has just come online and handleOnline's pass is the only one.
C14_Witness ==
    /\ online
    /\ mounted
    /\ calls = <<Call("online", FALSE)>>
    /\ Len(passes) = 1
    /\ passes[1].origin = "online"
    /\ passes[1].stored = Stored

\* C15: a drain pass finishes attempting every entry it read at its start
\* before any delivery attempt is made for an entry enqueued after it started:
\* no attempt in flight is for an entry younger than a pass still in flight.
C15_BacklogBeforeNewer ==
    \A a, b \in 1..Len(passes) : InFlightId(passes[b]) < passes[a].born

\* C16: a failed delivery does not end a drain pass: whatever the outcome of the
\* attempt that settles, the pass goes on to the next entry it read at its
\* start, and it returns only after the last one, with one outcome per entry.
C16_FailureDoesNotStopThePass ==
    [][\A p \in 1..Len(passes) : \A ok \in BOOLEAN :
          Settle(p, ok) =>
              IF passes[p].idx < Len(passes[p].stored)
              THEN /\ Len(passes') = Len(passes)
                   /\ passes'[p].stored = passes[p].stored
                   /\ passes'[p].idx = passes[p].idx + 1
                   /\ passes'[p].outcomes = Append(passes[p].outcomes, ok)
              ELSE /\ done'.stored = passes[p].stored
                   /\ done'.outcomes = Append(passes[p].outcomes, ok)
                   /\ Len(done'.outcomes) = Len(done'.stored)
      ]_vars

\* A pass that returned after its first delivery failed and a later one succeeded.
C16_Witness ==
    /\ done # NoPass
    /\ Len(done.stored) >= 2
    /\ done.outcomes[1] = FALSE
    /\ done.outcomes[Len(done.outcomes)] = TRUE

\* C17: a drain pass writes the persisted queue exactly once, when it returns
\* after its last attempt has settled, and writes nothing between its read and
\* that write; a flushQueue call that returns at once (runtime offline, or queue
\* empty) writes nothing.
C17_OneWritePerPass ==
    [][/\ (calls' # <<>> /\ calls'[1].returned) => storage' = storage
       /\ Len(passes') = Len(passes) + 1 => storage' = storage
       /\ (Len(passes') = Len(passes) /\ passes' # passes) => storage' = storage
       /\ done' # NoPass => storage' = Stringify(done'.remaining)
      ]_vars

\* A pass over two entries or more has just returned and written the entries
\* it retained, fewer than it read.
C17_Witness ==
    /\ done # NoPass
    /\ Len(done.stored) >= 2
    /\ done.remaining # <<>>
    /\ Len(done.remaining) < Len(done.stored)
    /\ storage = Stringify(done.remaining)

Successes(outcomes) == Cardinality({i \in 1..Len(outcomes) : outcomes[i]})

\* C18: the flushed count flushQueue returns is the number of the entries read
\* at its start whose delivery succeeded, flushed plus the number of retained
\* entries is the number of entries read, and a call that returns at once
\* returns flushed = 0.
C18_FlushedCountsSuccesses ==
    /\ done # NoPass =>
           /\ Len(done.outcomes) = Len(done.stored)
           /\ done.flushed = Successes(done.outcomes)
           /\ done.flushed + Len(done.remaining) = Len(done.stored)
    /\ \A i \in 1..Len(calls) : calls[i].returned => calls[i].flushed = 0

\* A pass over three entries returned flushed = 2.
C18_Witness ==
    /\ done # NoPass
    /\ Len(done.stored) = 3
    /\ done.flushed = 2
    /\ Len(done.remaining) = 1

Forwarded ==
    IF notes = {"saved"} THEN Stored[Len(Stored)].qrPayload
    ELSE subs[Len(subs)].text

\* The statement as claimed: the payload is the entered text, character for
\* character.
C20_ManualTextVerbatim ==
    \A raw \in typed : Forwarded = raw

\* C20: manual entry forwards the entered text with its leading and trailing
\* white space removed: for every text submitted from the manual field, the
\* payload handed to the delivery call (or, offline, stored in the queue
\* entry) is the trimmed text, and a text that is empty after trimming is not
\* submitted.
C20_ManualTextTrimmed ==
    \A raw \in typed : Trim(raw) # <<>> /\ Forwarded = Trim(raw)

\* " a" was entered and "a" is the payload of the delivery call now awaited.
C20_Witness ==
    /\ typed = {<<" ", "a">>}
    /\ online
    /\ subs # <<>>
    /\ subs[Len(subs)].text = <<"a">>

Keys(out) == {out[i][1] : i \in 1..Len(out)}

Field(out, key) == out[CHOOSE i \in 1..Len(out) : out[i][1] = key][2]

\* The fourth key of a payload of the given kind.
KindKey(kind) == IF kind = "member" THEN "membershipId" ELSE "referrer"

\* C24: a generated payload has exactly the shape of its kind: four keys, name,
\* time, type and membershipId (member) or referrer (guest), never both; type
\* is the kind, name and the fourth field are the trimmed arguments, and time
\* is the instant read when the payload was built.
C24_PayloadShape ==
    built.kind # "none" =>
        /\ Len(built.out) = 4
        /\ Keys(built.out) = {"name", "time", "type", KindKey(built.kind)}
        /\ Field(built.out, "type") = built.kind
        /\ Field(built.out, "name") = Trim(built.name)
        /\ Field(built.out, KindKey(built.kind)) = Trim(built.field)
        /\ Field(built.out, "time") = clock - 1

\* A guest payload built from a name and a referrer with surrounding spaces.
C24_Witness ==
    /\ built.kind = "guest"
    /\ built.name = <<" ", "a", " ">>
    /\ built.field = <<"A", "1", " ">>
    /\ Field(built.out, "name") = <<"a">>
    /\ Field(built.out, "referrer") = <<"A", "1">>
    /\ clock = 3

\* C25: at every moment the persisted queue lists its entries in the order in
\* which they were enqueued (ids are handed out in that order) and holds no
\* entry twice, whatever enqueues and overlapping drain passes have done.
C25_StoreInEnqueueOrder ==
    Increasing(Stored)

\* Three entries persisted while two drain passes are in flight.
C25_Witness ==
    /\ Len(Stored) = 3
    /\ Len(passes) = 2

\* The statement as claimed: no step taken while the runtime reports offline
\* issues a delivery call, for a queued entry or for a submission.
C26_NoCallWhileOffline ==
    [][(~online /\ ~online') =>
          /\ Issued = {}
          /\ Len(subs') <= Len(subs)
      ]_vars

\* C26: a submitScan called while the runtime reports offline goes straight to
\* enqueue and leaves no delivery call awaited, and a flushQueue called while
\* offline returns flushed 0, starts no pass and leaves the persisted queue and
\* the mirror as they were.
C26_OfflineEntryMakesNoCall ==
    [][/\ \A raw \in ManualTexts :
              (~online /\ HandleManualSubmit(raw)) =>
                  /\ subs' = subs
                  /\ passes' = passes
                  /\ nextId' = nextId + 1
       /\ (calls' # <<>> /\ ~online') =>
              /\ Len(calls') = 1
              /\ calls'[1].returned
              /\ calls'[1].flushed = 0
              /\ passes' = passes
              /\ storage' = storage
              /\ queue' = queue
      ]_vars

\* Offline, a delivered submission's post-success drain returned at once over
\* a store that holds entries.
C26_Witness ==
    /\ ~online
    /\ notes = {"recorded"}
    /\ calls = <<Call("submit", TRUE)>>
    /\ Stored # <<>>

\* C21: the camera stream is a scoped resource: once the scan panel is
\* unmounted and no getUserMedia call is awaited any more, no acquired stream
\* is left with running tracks.
C21_NoStreamLeftOpen ==
    (~mounted /\ camera.orphaned = 0) => camera.open = {}

C23_Quiet ==
    /\ storage' = storage
    /\ queue' = queue
    /\ subs' = subs
    /\ passes' = passes
    /\ nextId' = nextId
    /\ acked' = acked
    /\ mounted'
    /\ scanner'.detecting <= scanner.detecting

\* C23: a scan that finds no detector, a camera not ready, or no code in the
\* frame (or whose detect call rejects) attempts no delivery and leaves the
\* persisted queue as it was; the miss raises the "no QR code" notification.
C23_MissNeverQueued ==
    [][ /\ \A cond \in {"unsupported", "warming"} : HandleScan(cond) => C23_Quiet
        /\ \A outcome \in DetectOutcomes :
              (DetectSettle(outcome) /\ (~outcome.ok \/ outcome.codes = <<>>)) =>
                  (C23_Quiet /\ notes' = {"noqr"}) ]_vars

\* A frame without a code was handled while entries and a delivery wait.
C23_Witness ==
    /\ notes = {"noqr"}
    /\ scanner = [detecting |-> 0, scanStatus |-> "Error"]
    /\ Stored # <<>>
    /\ subs # <<>>

\* C28: with one mounted instance and no other tab, the mirror holds exactly
\* the persisted entries, so pendingCount is their number.
C28_MirrorAgrees ==
    mounted => queue = Stored

\* A pass has just completed, with entries left, while another is in flight.
C28_Witness ==
    /\ mounted
    /\ done # NoPass
    /\ Len(passes) = 1
    /\ Stored # <<>>
    /\ queue = Stored

\* C29: automatic re-draining terminates: with no enqueue and no 'online'
\* event after the runtime is back online, only finitely many passes are
\* started, so from some moment on no pass is in flight.
C29_RedrainTerminates ==
    <>[](passes = <<>>)

\* The request r was issued for an earlier value of the query (date).
C27_Stale(r) ==
    r # Len(search.reqs) \/ search.reqs[r].q # search.query

\* C27: search results belong to the latest query: the response or error of a
\* request issued for an earlier value changes neither the results nor the
\* status shown and raises no notification.
C27_LatestQueryOnly ==
    [][ \A r \in 1..Len(search.reqs), ok \in BOOLEAN :
            (Responds(r, ok) /\ C27_Stale(r)) =>
                /\ search'.results = search.results
                /\ search'.status = search.status
                /\ ~search'.alert ]_vars

\* The request for "x" has just been dropped while the panel, showing the
\* results for "y", waits for nothing else.
C27_Witness ==
    /\ search.view = "member"
    /\ search.ignored = "x"
    /\ search.query = "y"
    /\ search.results = "y"
    /\ search.reqs = <<>>

\* C30: once the members are loaded, a member's code that stays in view is
\* eventually recognized: selectedMember becomes that member (or the code
\* leaves the view first).
C30_EventuallyRecognized ==
    (checkin.loaded /\ checkin.inView = "A")
        ~> (checkin.selectedMember = "A" \/ checkin.inView # "A")

====
